---- MODULE Spec2Model ----
(***************************************************************************)
(* A model of webwhatsapi.WhatsAPIDriver (src/webwhatsapi/__init__.py).    *)
(*                                                                         *)
(* The driver is modelled in five parts, each with its own specification   *)
(* over the same variables:                                                *)
(*   SpecSync     get_unread / get_all_messages_until_date                 *)
(*   SpecSession  connect / get_status / get_qr / reload_qr                *)
(*   SpecStorage  get_local_storage / set_local_storage and the snapshot   *)
(*   SpecProfile  save_firefox_profile                                     *)
(*   SpecMedia    download_media                                           *)
(* The browser page, the bridge (wapi_functions) and the file system are   *)
(* the environment: their moves are separate actions, and every driver     *)
(* method is one action that runs the whole method.                        *)
(***************************************************************************)
EXTENDS Integers, Sequences, FiniteSets, TLC

VARIABLES
    now,          \* the clock read by datetime.now(), in days
    chats,        \* the raw message groups held by the remote page
    sync,         \* the last synchronisation call: its arguments, the bridge
                  \* calls it made (with the date passed, if any) and its result
    driver,       \* self.driver: "None", "NoSession" or "Session"
    page,         \* the markers and pairing code shown by the remote page
    sess,         \* the last session call and what it returned
    localStorage, \* window.localStorage of the remote page
    snapshotFile, \* localStorage.json in the permanent and in the current profile
    fs,           \* the profile directories on disk
    prof,         \* the last save_firefox_profile call
    media         \* the last download_media call

vars == <<now, chats, sync, driver, page, sess, localStorage, snapshotFile,
          fs, prof, media>>

syncVars    == <<now, chats, sync>>
sessionVars == <<driver, page, sess>>
storageVars == <<localStorage, snapshotFile>>
profileVars == <<fs, prof>>
mediaVars   == <<media>>

None == "None"

Max(a, b) == IF a >= b THEN a ELSE b
Min(a, b) == IF a <= b THEN a ELSE b

Range(s) == {s[i] : i \in 1..Len(s)}

(***************************************************************************)
(* Part 1: synchronisation                                                 *)
(***************************************************************************)

\* timedelta(days=7); time is counted in days
SevenDays == 7

\* the clock reading, in days
Now0 == 10

\* timestamps of raw messages lie within Slack days of the first cutoff
Slack == 1

\* the remote page holds at most MaxGroups chats and MaxMsgs messages
MaxGroups == 2
MaxMsgs == 2

Stamps == (Now0 - SevenDays - Slack)..(Now0 - SevenDays + Slack)

ChatIds == {"c1", "c2", "c3"}

TotalMsgs(groups) ==
    LET RECURSIVE Sum(_)
        Sum(i) == IF i = 0 THEN 0 ELSE Len(groups[i].messages) + Sum(i - 1)
    IN Sum(Len(groups))

\* the date argument: None is <<>>, a timestamp d is <<d>>
NoDate == <<>>

SyncIdle == [op |-> "idle"]

InitSyncVars ==
    /\ now = Now0
    /\ chats = <<>>
    /\ sync = SyncIdle

\* the remote page opens a chat: a new raw group, with no message yet
NewChat ==
    /\ Len(chats) < MaxGroups
    /\ chats' = Append(chats, [id |-> CHOOSE c \in ChatIds :
                                         \A i \in 1..Len(chats) : chats[i].id # c,
                               messages |-> <<>>])
    /\ sync' = SyncIdle
    /\ UNCHANGED <<now, sessionVars, storageVars, profileVars, mediaVars>>

\* the remote page receives a message in chat g; messages are not delivered
\* in timestamp order
NewMessage(g, ts) ==
    /\ g \in 1..Len(chats)
    /\ TotalMsgs(chats) < MaxMsgs
    /\ chats' = [chats EXCEPT ![g].messages =
                    Append(@, [id |-> <<chats[g].id, Len(@) + 1>>, timestamp |-> ts])]
    /\ sync' = SyncIdle
    /\ UNCHANGED <<now, sessionVars, storageVars, profileVars, mediaVars>>

\* a call of a wapi_functions method as the log of a synchronisation call keeps
\* it: the method, the date passed to it, if any, and whether it completed or
\* failed, in which case it raised
BridgeCall(fn, date, fails) ==
    [fn |-> fn, date |-> date, status |-> IF fails THEN "failed" ELSE "completed"]

Failed(calls) == \E i \in 1..Len(calls) : calls[i].status = "failed"

\* wapi_functions.getUnreadMessages / getAllLatestMessages: the groups held
\* by the page
getUnreadMessages(include_me, include_notifications) == chats

getAllLatestMessages(include_me, include_notifications) == chats

\* wapi_functions.getUnreadMessagesUsingChatId: the groups of one chat
getUnreadMessagesUsingChatId(chat_id, include_me, include_notifications) ==
    SelectSeq(chats, LAMBDA g : g.id = chat_id)

\* objects.chat.factory_chat: the chat a raw group belongs to
factory_chat(raw_group) == raw_group.id

\* objects.message.factory_message: the message object of a raw message; it
\* keeps the raw timestamp
factory_message(raw) == [id |-> raw.id, timestamp |-> raw.timestamp]

\* objects.message.MessageGroup
MessageGroup(chat, messages) == [chat |-> chat, messages |-> messages]

\* map(lambda message: factory_message(message, self), raw_messages)
factory_messages(raw_messages) ==
    [i \in 1..Len(raw_messages) |-> factory_message(raw_messages[i])]

\* sorted(..., key=lambda message: message.timestamp): a stable sort
RECURSIVE InsertByTimestamp(_, _)
InsertByTimestamp(m, s) ==
    IF s = <<>> THEN <<m>>
    ELSE IF m.timestamp < Head(s).timestamp THEN <<m>> \o s
    ELSE <<Head(s)>> \o InsertByTimestamp(m, Tail(s))

RECURSIVE sorted(_)
sorted(s) ==
    IF s = <<>> THEN <<>>
    ELSE InsertByTimestamp(s[Len(s)], sorted(SubSeq(s, 1, Len(s) - 1)))

\* int((datetime.now() - timedelta(days=7)).timestamp())
seven_days_ago == now - SevenDays

\* the messages of one group of get_unread
UnreadMessagesOf(raw_message_group, filter_week) ==
    IF filter_week
    THEN sorted(factory_messages(
                    SelectSeq(raw_message_group.messages,
                              LAMBDA msg : msg.timestamp >= seven_days_ago)))
    ELSE factory_messages(raw_message_group.messages)

\* unread_messages.append(MessageGroup(chat, messages)) for every raw group
UnreadGroups(raw_message_groups, filter_week) ==
    [i \in 1..Len(raw_message_groups) |->
        MessageGroup(factory_chat(raw_message_groups[i]),
                     UnreadMessagesOf(raw_message_groups[i], filter_week))]

\* get_unread(include_me, include_notifications, filter_week, specific_chat)
get_unread(include_me, include_notifications, filter_week, specific_chat) ==
    LET raw_message_groups ==
            IF specific_chat = None
            THEN getUnreadMessages(include_me, include_notifications)
            ELSE getUnreadMessagesUsingChatId(specific_chat, include_me,
                                              include_notifications)
        call == IF specific_chat = None
                THEN BridgeCall("getUnreadMessages", NoDate, FALSE)
                ELSE BridgeCall("getUnreadMessagesUsingChatId", NoDate, FALSE)
    IN /\ sync' = [op |-> "get_unread",
                   filter_week |-> filter_week,
                   date |-> NoDate,
                   cutoff |-> seven_days_ago,
                   calls |-> <<call>>,
                   outcome |-> "returned",
                   raw |-> raw_message_groups,
                   result |-> UnreadGroups(raw_message_groups, filter_week)]
       /\ UNCHANGED <<now, chats, sessionVars, storageVars, profileVars, mediaVars>>

\* a clamp that takes the earlier of the two dates
ClampDateEarlier(date) ==
    IF date = NoDate THEN seven_days_ago ELSE Min(date[1], seven_days_ago)

\* date = seven_days_ago if date is None else max(date, seven_days_ago)
ClampDate(date) ==
    IF date = NoDate THEN seven_days_ago ELSE Max(date[1], seven_days_ago)

\* the messages of one group of get_all_messages_until_date
UntilDateMessagesOf(raw_message_group, date) ==
    sorted(factory_messages(
               SelectSeq(raw_message_group.messages,
                         LAMBDA msg : msg.timestamp >= date)))

\* a loop that appends a group only when it has messages
UntilDateGroupsSkippingEmpty(raw_message_groups, date) ==
    LET kept == SelectSeq(raw_message_groups,
                          LAMBDA g : UntilDateMessagesOf(g, date) # <<>>)
    IN [i \in 1..Len(kept) |->
           MessageGroup(factory_chat(kept[i]), UntilDateMessagesOf(kept[i], date))]

\* unread_messages.append(MessageGroup(chat, messages)) for every raw group
UntilDateGroups(raw_message_groups, date) ==
    [i \in 1..Len(raw_message_groups) |->
        MessageGroup(factory_chat(raw_message_groups[i]),
                     UntilDateMessagesOf(raw_message_groups[i], date))]

\* an order of the bridge calls that takes the snapshot before it loads
UntilDateCallsLatestFirst(date, load_fails, latest_fails) ==
    <<BridgeCall("getAllLatestMessages", NoDate, latest_fails)>>
    \o (IF latest_fails THEN <<>>
        ELSE <<BridgeCall("loadEarlierMessagesTillDateAllChats", <<date>>, load_fails)>>)

\* the bridge calls of get_all_messages_until_date: the load of the earlier
\* messages and, unless it raised, the latest messages
UntilDateCalls(date, load_fails, latest_fails) ==
    <<BridgeCall("loadEarlierMessagesTillDateAllChats", <<date>>, load_fails)>>
    \o (IF load_fails THEN <<>>
        ELSE <<BridgeCall("getAllLatestMessages", NoDate, latest_fails)>>)

\* get_all_messages_until_date(date, include_me, include_notifications); an
\* exception of a bridge call ends the method, so that latest_fails is about a
\* call made only when the load completed
get_all_messages_until_date(requested, include_me, include_notifications, load_fails, latest_fails) ==
    LET date == ClampDate(requested)
        calls == UntilDateCalls(date, load_fails, latest_fails)
        raw_message_groups ==
            IF Failed(calls) THEN <<>>
            ELSE getAllLatestMessages(include_me, include_notifications)
    IN /\ load_fails => ~latest_fails
       /\ sync' = [op |-> "get_all_messages_until_date",
                   filter_week |-> TRUE,
                   date |-> requested,
                   cutoff |-> date,
                   calls |-> calls,
                   outcome |-> IF Failed(calls) THEN "raised" ELSE "returned",
                   raw |-> raw_message_groups,
                   result |-> IF Failed(calls) THEN <<>>
                              ELSE UntilDateGroups(raw_message_groups, date)]
       /\ UNCHANGED <<now, chats, sessionVars, storageVars, profileVars, mediaVars>>

Dates == {NoDate} \cup {<<d>> : d \in Stamps}

NextSync ==
    \/ NewChat
    \/ \E g \in 1..MaxGroups, ts \in Stamps : NewMessage(g, ts)
    \/ \E include_me \in BOOLEAN, include_notifications \in BOOLEAN,
          filter_week \in BOOLEAN, specific_chat \in {None} \cup ChatIds :
          get_unread(include_me, include_notifications, filter_week, specific_chat)
    \/ \E requested \in Dates, include_me \in BOOLEAN,
          include_notifications \in BOOLEAN :
          get_all_messages_until_date(requested, include_me, include_notifications,
                                      FALSE, FALSE)
    \* a call, with the default flags, in which a bridge call fails
    \/ \E requested \in Dates, load_fails \in BOOLEAN, latest_fails \in BOOLEAN :
          /\ load_fails \/ latest_fails
          /\ get_all_messages_until_date(requested, TRUE, FALSE,
                                         load_fails, latest_fails)

(***************************************************************************)
(* Part 2: the session: status, pairing code                               *)
(***************************************************************************)

\* the pairing codes the remote page cycles through
NumCodes == 3

\* WhatsAPIDriverStatus
Unknown      == "Unknown"
NoDriver     == "NoDriver"
NotConnected == "NotConnected"
NotLoggedIn  == "NotLoggedIn"
LoggedIn     == "LoggedIn"
WhatsAPIDriverStatus == {Unknown, NoDriver, NotConnected, NotLoggedIn, LoggedIn}

\* self.driver is None (the class attribute), a WebDriver whose session_id is
\* None, or a WebDriver with a session
DriverStates == {"None", "NoSession", "Session"}

\* self.driver after close() or quit(): the WebDriver object is still there
\* and keeps its session_id, but the browser session it names has ended
Released == "Released"

\* a call made after close() or quit(): its first driver command is sent to
\* the ended session and the driver's exception comes back
AfterShutdown(op, command) ==
    [op |-> op, outcome |-> "raised", result |-> "WebDriverException",
     events |-> <<>>, issued |-> <<command>>, pre |-> page]

\* the page before driver.get
BlankPage ==
    [url |-> "about:blank", main |-> FALSE, qr |-> FALSE, stale |-> FALSE, code |-> 0]

\* the page right after driver.get(_URL) or driver.refresh(): no marker yet
LoadedPage ==
    [url |-> "web.whatsapp.com", main |-> FALSE, qr |-> FALSE, stale |-> FALSE,
     code |-> 0]

\* what web.whatsapp.com can show: main is _SELECTORS['mainPage'], qr is
\* _SELECTORS['qrCode'] with the pairing code it encodes, stale is the text
\* "Click to reload QR code", which the page lays over the QR image
PageShapes ==
    {p \in [url : {"web.whatsapp.com"}, main : BOOLEAN, qr : BOOLEAN,
            stale : BOOLEAN, code : 0..(NumCodes - 1)] :
        /\ p.stale => p.qr
        /\ ~p.qr => p.code = 0}

SessIdle == [op |-> "idle"]

InitSessionVars ==
    /\ driver \in DriverStates
    /\ page = BlankPage
    /\ sess = SessIdle

\* the remote page redraws itself: it logs in or out, shows a pairing code,
\* replaces it by a new one, or declares it stale
PageChange(p) ==
    /\ page.url # "about:blank"
    /\ p # page
    /\ page' = p
    /\ sess' = SessIdle
    /\ UNCHANGED <<driver, syncVars, storageVars, profileVars, mediaVars>>

\* the page's answer to a click on the QR image: a stale code is replaced by
\* a fresh one; a valid code stays
PageOnClick(p) ==
    IF p.stale
    THEN [p EXCEPT !.stale = FALSE, !.code = (p.code + 1) % NumCodes]
    ELSE p

\* driver.find_element_by_css_selector: the element, NoSuchElementException
\* when the page has none, or another WebDriverException when the driver fails
find_element(p, marker, driver_fails) ==
    IF driver_fails THEN "WebDriverException"
    ELSE IF p[marker] THEN "found"
    ELSE "NoSuchElementException"

\* a probe order that looks for the QR code first
get_status_qr_first(d, p, main_fails, qr_fails) ==
    IF d = "None" THEN [outcome |-> "returned", result |-> NotConnected]
    ELSE IF d = "NoSession" THEN [outcome |-> "returned", result |-> NotConnected]
    ELSE LET qr == find_element(p, "qr", qr_fails)
             main == find_element(p, "main", main_fails)
         IN IF qr = "found" THEN [outcome |-> "returned", result |-> NotLoggedIn]
            ELSE IF qr # "NoSuchElementException"
                 THEN [outcome |-> "raised", result |-> qr]
            ELSE IF main = "found" THEN [outcome |-> "returned", result |-> LoggedIn]
            ELSE IF main # "NoSuchElementException"
                 THEN [outcome |-> "raised", result |-> main]
            ELSE [outcome |-> "returned", result |-> Unknown]

\* get_status: what it returns or raises for a driver state and a page; only
\* NoSuchElementException is caught
get_status_of(d, p, main_fails, qr_fails) ==
    IF d = "None" THEN [outcome |-> "returned", result |-> NotConnected]
    ELSE IF d = "NoSession" THEN [outcome |-> "returned", result |-> NotConnected]
    ELSE LET main == find_element(p, "main", main_fails)
             qr == find_element(p, "qr", qr_fails)
         IN IF main = "found" THEN [outcome |-> "returned", result |-> LoggedIn]
            ELSE IF main # "NoSuchElementException"
                 THEN [outcome |-> "raised", result |-> main]
            ELSE IF qr = "found" THEN [outcome |-> "returned", result |-> NotLoggedIn]
            ELSE IF qr # "NoSuchElementException"
                 THEN [outcome |-> "raised", result |-> qr]
            ELSE [outcome |-> "returned", result |-> Unknown]

\* get_status()
get_status(main_fails, qr_fails) ==
    LET r == get_status_of(driver, page, main_fails, qr_fails)
    IN /\ driver = Released => (main_fails /\ qr_fails)
       /\ sess' = [op |-> "get_status", outcome |-> r.outcome, result |-> r.result,
                   events |-> <<>>, pre |-> page,
                   driver_fails |-> <<main_fails, qr_fails>>]
       /\ UNCHANGED <<driver, page, syncVars, storageVars, profileVars, mediaVars>>

\* a test that asks for a reload whatever the page shows
ShouldReloadAlways(p) == TRUE

\* "Click to reload QR code" in self.driver.page_source
ShouldReload(p) == p.stale

\* the body of reload_qr on page p: find the QR image and click it
ReloadQr(p) ==
    IF find_element(p, "qr", FALSE) = "found"
    THEN [exc |-> None, page |-> PageOnClick(p), events |-> <<"click">>]
    ELSE [exc |-> "NoSuchElementException", page |-> p, events |-> <<>>]

\* reload_qr()
reload_qr ==
    /\ driver \in {"Session", Released}
    /\ LET r == ReloadQr(page)
       IN IF driver = Released
          THEN /\ page' = page
               /\ sess' = AfterShutdown("reload_qr", "find_element")
          ELSE /\ page' = r.page
               /\ sess' = [op |-> "reload_qr",
                           outcome |-> IF r.exc = None THEN "returned" ELSE "raised",
                           result |-> r.exc, events |-> r.events, pre |-> page]
    /\ UNCHANGED <<driver, syncVars, storageVars, profileVars, mediaVars>>

\* the paths get_qr can be asked to write to; None asks for a temporary file
Filenames == {None, "qr.png"}

\* get_qr(filename)
get_qr(filename) ==
    /\ driver \in {"Session", Released}
    /\ LET r == IF ShouldReload(page) THEN ReloadQr(page)
                ELSE [exc |-> None, page |-> page, events |-> <<>>]
           qr == find_element(r.page, "qr", FALSE)
           fn_png == IF filename = None THEN "mkstemp.png" ELSE filename
       IN /\ page' = r.page
          /\ sess' =
               IF driver = Released
               THEN AfterShutdown("get_qr", "page_source")
               ELSE IF r.exc # None
               THEN [op |-> "get_qr", outcome |-> "raised", result |-> r.exc,
                     events |-> r.events, pre |-> page]
               ELSE IF qr # "found"
               THEN [op |-> "get_qr", outcome |-> "raised", result |-> qr,
                     events |-> r.events, pre |-> page]
               ELSE [op |-> "get_qr", outcome |-> "returned",
                     result |-> [fn_png |-> fn_png, code |-> r.page.code],
                     events |-> r.events \o <<"screenshot">>, pre |-> page]
    /\ UNCHANGED <<driver, syncVars, storageVars, profileVars, mediaVars>>

\* close(): self.driver.close() closes the only window, which ends the browser
\* session; self.driver is left as it is
close ==
    /\ driver = "Session"
    /\ driver' = Released
    /\ page' = BlankPage
    /\ sess' = [op |-> "close", outcome |-> "returned", result |-> None,
                events |-> <<"close">>, pre |-> page]
    /\ UNCHANGED <<syncVars, storageVars, profileVars, mediaVars>>

\* quit(): self.driver.quit() ends the browser session; self.driver is left
\* as it is
quit ==
    /\ driver = "Session"
    /\ driver' = Released
    /\ page' = BlankPage
    /\ sess' = [op |-> "quit", outcome |-> "returned", result |-> None,
                events |-> <<"quit">>, pre |-> page]
    /\ UNCHANGED <<syncVars, storageVars, profileVars, mediaVars>>

(***************************************************************************)
(* Part 3: the localStorage snapshot                                       *)
(*                                                                         *)
(* A string is a sequence of code points.                                  *)
(***************************************************************************)

\* the remote storage holds at most MaxChars characters in its values
MaxChars == 2

Ch == [a |-> 97, quote |-> 39, dquote |-> 34, backslash |-> 92, newline |-> 10,
       eacute |-> 233, euro |-> 8364, emoji |-> 128512,
       n |-> 110, t |-> 116, r |-> 114, x |-> 120, u |-> 117, U |-> 85,
       zero |-> 48, nine |-> 57, f |-> 102, tab |-> 9, cr |-> 13]

\* the characters the page stores: plain ASCII, both quotes, a backslash, a
\* control character, and non-ASCII of one, two and more than two bytes
StoredChars ==
    {Ch.a, Ch.quote, Ch.dquote, Ch.backslash, Ch.newline, Ch.eacute, Ch.euro,
     Ch.emoji}

StorageKeys == {"WABrowserId", "WAToken1"}

RECURSIVE Concat(_)
Concat(ss) == IF ss = <<>> THEN <<>> ELSE Head(ss) \o Concat(Tail(ss))

\* a lower-case hexadecimal digit and its value
HexDigit(d) == IF d < 10 THEN Ch.zero + d ELSE Ch.a + (d - 10)

IsHexDigit(c) == (c >= Ch.zero /\ c <= Ch.nine) \/ (c >= Ch.a /\ c <= Ch.f)

HexValue(c) == IF c <= Ch.nine THEN c - Ch.zero ELSE c - Ch.a + 10

\* n as width hexadecimal digits
RECURSIVE Hex(_, _)
Hex(n, width) ==
    IF width = 0 THEN <<>> ELSE Hex(n \div 16, width - 1) \o <<HexDigit(n % 16)>>

RECURSIVE HexNumber(_)
HexNumber(digits) ==
    IF digits = <<>> THEN 0
    ELSE 16 * HexNumber(SubSeq(digits, 1, Len(digits) - 1))
           + HexValue(digits[Len(digits)])

AllHex(digits) == \A k \in 1..Len(digits) : IsHexDigit(digits[k])

IsPrintableAscii(c) == c >= 32 /\ c < 127

\* str.encode('unicode-escape') of one character
UnicodeEscapeChar(c) ==
    IF c = Ch.backslash THEN <<Ch.backslash, Ch.backslash>>
    ELSE IF c = Ch.tab THEN <<Ch.backslash, Ch.t>>
    ELSE IF c = Ch.newline THEN <<Ch.backslash, Ch.n>>
    ELSE IF c = Ch.cr THEN <<Ch.backslash, Ch.r>>
    ELSE IF IsPrintableAscii(c) THEN <<c>>
    ELSE IF c < 256 THEN <<Ch.backslash, Ch.x>> \o Hex(c, 2)
    ELSE IF c < 65536 THEN <<Ch.backslash, Ch.u>> \o Hex(c, 4)
    ELSE <<Ch.backslash, Ch.U>> \o Hex(c, 8)

\* v.encode('unicode-escape').decode('ascii')
unicode_escape(v) == Concat([k \in 1..Len(v) |-> UnicodeEscapeChar(v[k])])

\* get_local_storage(): the page's storage with every value escaped
EscapedStorage(storage) ==
    [k \in DOMAIN storage |-> unicode_escape(storage[k])]

get_local_storage == EscapedStorage(localStorage)

\* json.dumps of one character of a string
JsonDumpsChar(c) ==
    IF c = Ch.dquote THEN <<Ch.backslash, Ch.dquote>>
    ELSE IF c = Ch.backslash THEN <<Ch.backslash, Ch.backslash>>
    ELSE IF c = Ch.newline THEN <<Ch.backslash, Ch.n>>
    ELSE IF c = Ch.cr THEN <<Ch.backslash, Ch.r>>
    ELSE IF c = Ch.tab THEN <<Ch.backslash, Ch.t>>
    ELSE IF IsPrintableAscii(c) THEN <<c>>
    ELSE <<Ch.backslash, Ch.u>> \o Hex(c, 4)

\* json.dumps of a string, without the enclosing double quotes
JsonDumpsString(v) == Concat([k \in 1..Len(v) |-> JsonDumpsChar(v[k])])

\* json.loads of the text between the double quotes of a JSON string
RECURSIVE JsonLoadsString(_)
JsonLoadsString(t) ==
    IF t = <<>> THEN <<>>
    ELSE IF Head(t) # Ch.backslash THEN <<Head(t)>> \o JsonLoadsString(Tail(t))
    ELSE LET e == t[2]
         IN IF e = Ch.u
            THEN <<HexNumber(SubSeq(t, 3, 6))>> \o JsonLoadsString(SubSeq(t, 7, Len(t)))
            ELSE <<IF e = Ch.n THEN Ch.newline
                   ELSE IF e = Ch.r THEN Ch.cr
                   ELSE IF e = Ch.t THEN Ch.tab
                   ELSE e>> \o JsonLoadsString(SubSeq(t, 3, Len(t)))

\* dumps(d): the JSON object, key by key
dumps(d) == [k \in DOMAIN d |-> JsonDumpsString(d[k])]

\* loads(text)
loads(json) == [k \in DOMAIN json |-> JsonLoadsString(json[k])]

\* The page's JavaScript engine reading the text between the single quotes of
\* a string literal '...': the string it denotes, or a syntax error when the
\* text holds an unescaped single quote or line end, or a malformed \x or \u
\* escape.
RECURSIVE JsStringLiteral(_)
JsStringLiteral(t) ==
    IF t = <<>> THEN [ok |-> TRUE, value |-> <<>>]
    ELSE IF Head(t) \in {Ch.quote, Ch.newline, Ch.cr} THEN [ok |-> FALSE, value |-> <<>>]
    ELSE IF Head(t) # Ch.backslash
    THEN LET rest == JsStringLiteral(Tail(t))
         IN [ok |-> rest.ok, value |-> <<Head(t)>> \o rest.value]
    ELSE IF Len(t) < 2 THEN [ok |-> FALSE, value |-> <<>>]
    ELSE LET e == t[2]
             width == IF e = Ch.x THEN 2 ELSE IF e = Ch.u THEN 4 ELSE 0
             digits == SubSeq(t, 3, Min(Len(t), 2 + width))
             rest == JsStringLiteral(SubSeq(t, 3 + width, Len(t)))
             c == IF width > 0 THEN HexNumber(digits)
                  ELSE IF e = Ch.n THEN Ch.newline
                  ELSE IF e = Ch.r THEN Ch.cr
                  ELSE IF e = Ch.t THEN Ch.tab
                  ELSE e
         IN IF width > 0 /\ (Len(digits) < width \/ ~AllHex(digits))
            THEN [ok |-> FALSE, value |-> <<>>]
            ELSE [ok |-> rest.ok, value |-> <<c>> \o rest.value]

\* set_local_storage(data): the script of one window.localStorage.setItem('k',
\* 'v'); per key is run by the page. A script with a syntax error runs no
\* statement and execute_script raises.
set_local_storage(data) ==
    LET parsed == [k \in DOMAIN data |-> JsStringLiteral(data[k])]
    IN IF \A k \in DOMAIN data : parsed[k].ok
       THEN [exc |-> None,
             storage |-> [k \in DOMAIN localStorage \cup DOMAIN data |->
                             IF k \in DOMAIN data THEN parsed[k].value
                             ELSE localStorage[k]]]
       ELSE [exc |-> "JavascriptException", storage |-> localStorage]

\* a file that does not exist, and localStorage.json as written from the
\* storage `origin`
NoFile == [exists |-> FALSE]

SnapshotOf(storage) ==
    [exists |-> TRUE, json |-> dumps(EscapedStorage(storage)), origin |-> storage]

EmptyStorage == [k \in {} |-> <<>>]

StoredLength(storage) ==
    LET RECURSIVE Sum(_)
        Sum(ks) == IF ks = {} THEN 0
                   ELSE LET k == CHOOSE x \in ks : TRUE
                        IN Len(storage[k]) + Sum(ks \ {k})
    IN Sum(DOMAIN storage)

\* the page writes an item of its storage (while no snapshot has been taken)
PageSetItem(k, c) ==
    /\ page.url # "about:blank"
    /\ ~snapshotFile.perm.exists
    /\ StoredLength(localStorage) < MaxChars
    /\ localStorage' =
          [x \in DOMAIN localStorage \cup {k} |->
              IF x # k THEN localStorage[x]
              ELSE IF k \in DOMAIN localStorage THEN Append(localStorage[k], c)
              ELSE <<c>>]
    /\ sess' = SessIdle
    /\ UNCHANGED <<driver, page, snapshotFile, syncVars, profileVars, mediaVars>>

\* connect()
connect ==
    /\ driver \in {"Session", Released}
    /\ LET found == snapshotFile.src.exists
           r == IF found THEN set_local_storage(loads(snapshotFile.src.json))
                ELSE [exc |-> None, storage |-> localStorage]
       IN IF driver = Released
          THEN /\ UNCHANGED <<localStorage, page>>
               /\ sess' = AfterShutdown("connect", "get")
          ELSE /\ localStorage' = r.storage
               /\ page' = LoadedPage
               /\ sess' = [op |-> "connect",
                           outcome |-> IF r.exc = None THEN "returned" ELSE "raised",
                           result |-> r.exc,
                           events |-> <<"get">>
                                      \o (IF found THEN <<"execute_script">> ELSE <<>>)
                                      \o (IF found /\ r.exc = None THEN <<"refresh">>
                                          ELSE <<>>),
                           injected |-> IF found THEN DOMAIN snapshotFile.src.json
                                        ELSE {},
                           pre |-> page,
                           pre_snapshot |-> snapshotFile]
    /\ UNCHANGED <<driver, snapshotFile, syncVars, profileVars, mediaVars>>

(***************************************************************************)
(* Part 4: saving the profile                                              *)
(*                                                                         *)
(* A directory is the set of the names in it, localStorage.json apart,     *)
(* which snapshotFile tracks. fs.src is self._profile.path, fs.perm is     *)
(* self._profile_path and fs.tmp is "<self._profile_path>__tmp".           *)
(***************************************************************************)

LockNames == {"parent.lock", "lock", ".parentlock"}

\* what the browser keeps in its profile: a file, a directory and a lock
FileNames == {"prefs.js"}
DirNames  == {"storage"}
SrcNames  == FileNames \cup DirNames \cup {"parent.lock"}

Missing == [exists |-> FALSE, items |-> {}]
Dir(items) == [exists |-> TRUE, items |-> items]

ProfIdle == [op |-> "idle"]

\* shutil.copytree(src, dst, ignore=ignore_patterns(locks)): what dst holds
CopyIgnoringLocks(items) == items \ LockNames

\* os.path.exists(tmp_path) and len(os.listdir(tmp_path)) > 0
TmpCopyUsable(tmp_items, tmp_has_snapshot) ==
    tmp_items # {} \/ tmp_has_snapshot

\* save_firefox_profile(remove_old=True) up to the snapshot: the directories
\* afterwards and the exception raised, if any
SaveReplacing(rmtree_fails) ==
    IF ~fs.src.exists
    THEN [exc |-> "FileNotFoundError", fs |-> fs, perm_snapshot |-> snapshotFile.perm]
    ELSE IF fs.tmp.exists
    THEN [exc |-> "FileExistsError", fs |-> fs, perm_snapshot |-> snapshotFile.perm]
    ELSE LET tmp_items == CopyIgnoringLocks(fs.src.items)
         IN IF TmpCopyUsable(tmp_items, snapshotFile.src.exists)
            THEN IF fs.perm.exists /\ rmtree_fails
                 \* the old directory stays and the copy is moved into it
                 THEN [exc |-> None,
                       fs |-> [fs EXCEPT !.perm = Dir(fs.perm.items \cup {"__tmp"})],
                       perm_snapshot |-> snapshotFile.perm]
                 ELSE [exc |-> None,
                       fs |-> [fs EXCEPT !.perm = Dir(tmp_items)],
                       perm_snapshot |-> snapshotFile.src]
            ELSE [exc |-> "WhatsAPIException", fs |-> fs,
                  perm_snapshot |-> snapshotFile.perm]

\* save_firefox_profile(remove_old=False) up to the snapshot: every item but
\* the locks is copied over; copytree refuses a directory that is already
\* there, after the items in `before` were copied
SaveMerging(before) ==
    IF ~fs.src.exists
    THEN [exc |-> "FileNotFoundError", fs |-> fs, perm_snapshot |-> snapshotFile.perm]
    ELSE LET items == fs.src.items \ LockNames
             clash == (items \cap DirNames) \cap fs.perm.items
         IN IF clash # {}
            THEN [exc |-> "FileExistsError",
                  fs |-> [fs EXCEPT !.perm = Dir(fs.perm.items \cup (before \ clash))],
                  perm_snapshot |-> snapshotFile.perm]
            ELSE [exc |-> None,
                  fs |-> [fs EXCEPT !.perm = Dir(fs.perm.items \cup items)],
                  perm_snapshot |-> IF snapshotFile.src.exists THEN snapshotFile.src
                                    ELSE snapshotFile.perm]

\* save_firefox_profile(remove_old)
save_firefox_profile(remove_old, rmtree_fails, before) ==
    /\ driver = "Session"
    /\ fs.perm.exists
    /\ remove_old => before = {}
    /\ ~remove_old => (~rmtree_fails /\ before \subseteq fs.src.items \ LockNames)
    /\ LET r == IF remove_old THEN SaveReplacing(rmtree_fails) ELSE SaveMerging(before)
           written == r.exc = None
       IN /\ fs' = r.fs
          /\ snapshotFile' =
                [snapshotFile EXCEPT !.perm =
                    IF written
                    THEN [exists |-> TRUE, json |-> dumps(get_local_storage),
                          origin |-> localStorage]
                    ELSE r.perm_snapshot]
          /\ prof' = [op |-> "save_firefox_profile", remove_old |-> remove_old,
                      outcome |-> IF written THEN "returned" ELSE "raised",
                      result |-> r.exc, snapshot_written |-> written,
                      pre |-> fs, pre_snapshot |-> snapshotFile]
    /\ UNCHANGED <<driver, page, sess, localStorage, syncVars, mediaVars>>

\* the browser writes to, or somebody removes, the current profile directory;
\* a temporary copy is left behind or cleared away
ProfileChange(src, tmp) ==
    /\ <<src, tmp>> # <<fs.src, fs.tmp>>
    /\ fs' = [fs EXCEPT !.src = src, !.tmp = tmp]
    /\ snapshotFile' = IF src.exists THEN snapshotFile
                       ELSE [snapshotFile EXCEPT !.src = NoFile]
    /\ prof' = ProfIdle
    /\ UNCHANGED <<driver, page, sess, localStorage, syncVars, mediaVars>>

\* the process ends and a new one is constructed on the permanent profile:
\* __init__ copies it to a new current profile and starts a fresh browser
Restart ==
    /\ fs.perm.exists
    /\ driver' = "Session"
    /\ page' = BlankPage
    /\ sess' = SessIdle
    /\ localStorage' = EmptyStorage
    /\ fs' = [fs EXCEPT !.src = Dir(CopyIgnoringLocks(fs.perm.items))]
    /\ snapshotFile' = [snapshotFile EXCEPT !.src = snapshotFile.perm]
    /\ prof' = ProfIdle
    /\ UNCHANGED <<syncVars, mediaVars>>

(***************************************************************************)
(* Part 5: media download                                                  *)
(*                                                                         *)
(* Byte strings are modelled by their lengths.                             *)
(***************************************************************************)

\* the longest downloaded file
MaxFileLen == 45

\* file_data[:-10]: the bytes cut off the end
TrailerLen == 10

\* the block length of algorithms.AES
BlockLen == 16

MediaIdle == [op |-> "idle"]

\* media_msg.content: no such attribute, an empty value, or a base64 preview
Contents == {"AttributeError", "empty", "preview"}

\* file_data[:-10]: the length of the slice
e_file_len(file_len) == Max(file_len - TrailerLen, 0)

\* decryptor.update(data): the plaintext of the whole blocks of data
update_len(data_len) == (data_len \div BlockLen) * BlockLen

\* decryptor.finalize(): raises when an incomplete block is left
finalize(data_len) ==
    IF data_len % BlockLen = 0 THEN None ELSE "ValueError"

\* download_media(media_msg, download_preview), for a media_msg whose
\* content is `content` and whose file has file_len bytes
download_media(content, download_preview, file_len) ==
    /\ media' =
          IF content = "preview" /\ download_preview
          THEN [op |-> "download_media", content |-> content,
                download_preview |-> download_preview, file_len |-> file_len,
                outcome |-> "returned", result |-> None,
                stream |-> [from |-> "content"]]
          ELSE LET e_len == e_file_len(file_len)
                   exc == finalize(e_len)
               IN IF exc = None
                  THEN [op |-> "download_media", content |-> content,
                        download_preview |-> download_preview,
                        file_len |-> file_len,
                        outcome |-> "returned", result |-> None,
                        stream |-> [from |-> "file", len |-> update_len(e_len)]]
                  ELSE [op |-> "download_media", content |-> content,
                        download_preview |-> download_preview,
                        file_len |-> file_len,
                        outcome |-> "raised", result |-> exc,
                        stream |-> [from |-> "nothing"]]
    /\ UNCHANGED <<syncVars, sessionVars, storageVars, profileVars>>

(***************************************************************************)
(* The specifications                                                      *)
(***************************************************************************)

SampleStorage == [k \in {"WABrowserId"} |-> <<Ch.a>>]

QuietSync == InitSyncVars

QuietSession ==
    /\ driver = "Session"
    /\ page = BlankPage
    /\ sess = SessIdle

QuietStorage ==
    /\ localStorage = EmptyStorage
    /\ snapshotFile = [perm |-> NoFile, src |-> NoFile]

QuietProfile ==
    /\ fs = [src |-> Dir({"prefs.js"}), perm |-> Dir({}), tmp |-> Missing]
    /\ prof = ProfIdle

QuietMedia == media = MediaIdle

InitSync == InitSyncVars /\ QuietSession /\ QuietStorage /\ QuietProfile /\ QuietMedia

SpecSync == InitSync /\ [][NextSync]_vars

\* a client just constructed (autoconnect off), with or without a snapshot
\* in its profile
InitSession ==
    /\ InitSessionVars
    /\ localStorage = EmptyStorage
    /\ \E f \in {NoFile, SnapshotOf(SampleStorage)} :
          snapshotFile = [perm |-> f, src |-> f]
    /\ QuietSync /\ QuietProfile /\ QuietMedia

NextSession ==
    \/ connect
    \/ \E p \in PageShapes : PageChange(p)
    \/ \E main_fails \in BOOLEAN, qr_fails \in BOOLEAN : get_status(main_fails, qr_fails)
    \/ reload_qr
    \/ \E filename \in Filenames : get_qr(filename)
    \/ close
    \/ quit

SpecSession == InitSession /\ [][NextSession]_vars

InitStorage == QuietSync /\ QuietSession /\ QuietStorage /\ QuietProfile /\ QuietMedia

NextStorage ==
    \/ connect
    \/ \E k \in StorageKeys, c \in StoredChars : PageSetItem(k, c)
    \/ \E remove_old \in BOOLEAN : save_firefox_profile(remove_old, FALSE, {})
    \/ Restart

SpecStorage == InitStorage /\ [][NextStorage]_vars

InitProfile ==
    /\ QuietSync /\ QuietMedia /\ QuietProfile
    /\ driver = "Session"
    /\ page = LoadedPage
    /\ sess = SessIdle
    /\ localStorage = SampleStorage
    /\ snapshotFile = [perm |-> NoFile, src |-> NoFile]

NextProfile ==
    \/ \E remove_old \in BOOLEAN, rmtree_fails \in BOOLEAN,
          before \in SUBSET (FileNames \cup DirNames) :
          save_firefox_profile(remove_old, rmtree_fails, before)
    \/ \E src \in {Missing} \cup {Dir(items) : items \in SUBSET SrcNames},
          tmp \in {Missing, Dir({})} :
          ProfileChange(src, tmp)
    \/ Restart

SpecProfile == InitProfile /\ [][NextProfile]_vars

InitMedia == QuietSync /\ QuietSession /\ QuietStorage /\ QuietProfile /\ QuietMedia

NextMedia ==
    \E content \in Contents, download_preview \in BOOLEAN, file_len \in 0..MaxFileLen :
        download_media(content, download_preview, file_len)

SpecMedia == InitMedia /\ [][NextMedia]_vars

\* every part at once
Init == InitSession

Next == NextSync \/ NextSession \/ NextStorage \/ NextProfile \/ NextMedia

Spec == Init /\ [][Next]_vars

(***************************************************************************)
(* Claims about synchronisation (checked under SpecSync)                   *)
(***************************************************************************)

NonDecreasing(messages) ==
    \A i \in 1..Len(messages), j \in 1..Len(messages) :
        i < j => messages[i].timestamp <= messages[j].timestamp

\* C1: whatever the raw groups and the arguments of get_unread and
\* get_all_messages_until_date, the messages of every returned MessageGroup
\* are non-decreasing by timestamp.
C1_SortedWithinGroup ==
    sync.op # "idle" =>
        \A i \in 1..Len(sync.result) : NonDecreasing(sync.result[i].messages)

\* the raw messages of a group that a cutoff retains
Retained(raw_group, cutoff) ==
    SelectSeq(raw_group.messages, LAMBDA msg : msg.timestamp >= cutoff)

\* kept holds exactly the raw messages wanted: the same messages, each once
ExactlyThese(kept, wanted) ==
    /\ Len(kept) = Len(wanted)
    /\ {<<m.id, m.timestamp>> : m \in Range(kept)}
         = {<<m.id, m.timestamp>> : m \in Range(wanted)}

\* max(requestedDate, now - 7 days), None counting as now - 7 days
EffectiveCutoff ==
    IF sync.op = "get_all_messages_until_date" /\ sync.date # NoDate
    THEN Max(sync.date[1], now - SevenDays)
    ELSE now - SevenDays

\* C2 as stated: in both entry points, whatever the date and the flags, a
\* group keeps exactly its raw messages with timestamp >= the effective cutoff,
\* so no message older than seven days is returned.
C2_KeptIffNotOlderThanCutoff ==
    sync.op # "idle" =>
        \A i \in 1..Len(sync.result) :
            /\ ExactlyThese(sync.result[i].messages,
                            Retained(sync.raw[i], EffectiveCutoff))
            /\ \A m \in Range(sync.result[i].messages) :
                   m.timestamp >= now - SevenDays

\* C2 amended: the same, except that get_unread called with filter_week false
\* applies no cutoff and keeps every raw message of the group.
C2_KeptIffNotOlderThanCutoffWhenFiltering ==
    sync.op # "idle" =>
        \A i \in 1..Len(sync.result) :
            IF sync.op = "get_unread" /\ ~sync.filter_week
            THEN ExactlyThese(sync.result[i].messages, sync.raw[i].messages)
            ELSE /\ ExactlyThese(sync.result[i].messages,
                                 Retained(sync.raw[i], EffectiveCutoff))
                 /\ \A m \in Range(sync.result[i].messages) :
                        m.timestamp >= now - SevenDays

\* a date older than seven days was requested, a message between that date
\* and the seven-day cutoff was dropped and a newer one was kept
C2_Witness ==
    /\ sync.op = "get_all_messages_until_date"
    /\ sync.date # NoDate
    /\ sync.date[1] < now - SevenDays
    /\ \E i \in 1..Len(sync.result) :
          /\ sync.result[i].messages # <<>>
          /\ \E m \in Range(sync.raw[i].messages) :
                /\ m.timestamp >= sync.date[1]
                /\ m.timestamp < now - SevenDays

\* C3: both entry points return one MessageGroup per raw group supplied by
\* the bridge, in the bridge's order, also for a group left with no message.
C3_OneGroupPerRawGroup ==
    sync.op # "idle" =>
        /\ Len(sync.result) = Len(sync.raw)
        /\ \A i \in 1..Len(sync.raw) : sync.result[i].chat = sync.raw[i].id

\* the first of two groups had messages, and the cutoff removed them all
C3_Witness ==
    /\ sync.op # "idle"
    /\ Len(sync.raw) = 2
    /\ sync.raw[1].messages # <<>>
    /\ Len(sync.result) = 2
    /\ sync.result[1].messages = <<>>
    /\ sync.result[2].messages # <<>>

\* the places in the log of the calls of the bridge method fn
CallsOf(fn) == {i \in 1..Len(sync.calls) : sync.calls[i].fn = fn}

\* C12: get_all_messages_until_date calls the bridge's load of the earlier
\* messages of all chats exactly once, with max(date, now - 7 days); it asks
\* for the latest messages at most once and only after the load has completed;
\* when the load fails the latest messages are never asked for, and a call in
\* which a bridge call failed raises and returns nothing.
C12_LoadOnceThenSnapshot ==
    sync.op = "get_all_messages_until_date" =>
        LET loadCalls == CallsOf("loadEarlierMessagesTillDateAllChats")
            latestCalls == CallsOf("getAllLatestMessages")
        IN /\ Cardinality(loadCalls) = 1
           /\ \A i \in loadCalls : sync.calls[i].date = <<EffectiveCutoff>>
           /\ Cardinality(latestCalls) <= 1
           /\ \A i \in loadCalls, j \in latestCalls :
                  i < j /\ sync.calls[i].status = "completed"
           /\ \A i \in loadCalls :
                  IF sync.calls[i].status = "failed"
                  THEN latestCalls = {}
                  ELSE Cardinality(latestCalls) = 1
           /\ IF Failed(sync.calls)
              THEN sync.outcome = "raised" /\ sync.result = <<>>
              ELSE sync.outcome = "returned"

\* the load was asked for a date within the seven days and failed, while the
\* page held a message that the call would have returned
C12_Witness ==
    /\ sync.op = "get_all_messages_until_date"
    /\ sync.date # NoDate
    /\ sync.date[1] > now - SevenDays
    /\ sync.calls = <<BridgeCall("loadEarlierMessagesTillDateAllChats",
                                 sync.date, TRUE)>>
    /\ sync.outcome = "raised"
    /\ \E g \in 1..Len(chats) :
          \E m \in Range(chats[g].messages) : m.timestamp >= sync.date[1]

(***************************************************************************)
(* Claims about the session (checked under SpecSession)                    *)
(***************************************************************************)

\* the status the driver and the page call for
ExpectedStatus(d, p) ==
    IF d \in {"None", "NoSession"} THEN NotConnected
    ELSE IF p.main THEN LoggedIn
    ELSE IF p.qr THEN NotLoggedIn
    ELSE Unknown

\* C4: get_status returns NotConnected without a driver or a session id,
\* otherwise LoggedIn when the main marker is found (the QR marker present or
\* not), otherwise NotLoggedIn when the QR marker is found, otherwise Unknown;
\* it returns that whenever the driver answers both probes.
C4_StatusFollowsDriverAndPage ==
    sess.op = "get_status" =>
        /\ sess.outcome = "returned" => sess.result = ExpectedStatus(driver, sess.pre)
        /\ sess.driver_fails = <<FALSE, FALSE>> => sess.outcome = "returned"

\* the main marker and the QR marker were both on the page
C4_Witness ==
    /\ sess.op = "get_status"
    /\ sess.outcome = "returned"
    /\ sess.result = LoggedIn
    /\ sess.pre.main /\ sess.pre.qr

\* C5: get_status never raises, whatever exception a marker probe raises; it
\* returns one of the five states and changes nothing.
C5_StatusNeverRaises ==
    sess.op = "get_status" =>
        /\ sess.outcome = "returned"
        /\ sess.result \in WhatsAPIDriverStatus
        /\ page = sess.pre

Clicked(events) == "click" \in Range(events)

ClickBeforeScreenshot(events) ==
    \A i \in 1..Len(events), j \in 1..Len(events) :
        events[i] = "click" /\ events[j] = "screenshot" => i < j

\* C6: get_qr clicks the QR image exactly when the page shows the stale-code
\* prompt at the call, and before it captures the image, so that the capture
\* shows the code the page holds after the call; a get_qr call that follows
\* another directly clicks nothing and captures the same code.
C6_ReloadIffStale ==
    /\ [](sess.op = "get_qr" =>
            /\ Clicked(sess.events) <=> sess.pre.stale
            /\ ClickBeforeScreenshot(sess.events)
            /\ sess.outcome = "returned" => sess.result.code = page.code
            /\ ~sess.pre.stale => page = sess.pre)
    /\ [][(sess.op = "get_qr" /\ sess.outcome = "returned" /\ sess'.op = "get_qr")
            => /\ ~Clicked(sess'.events)
               /\ sess'.outcome = "returned"
               /\ sess'.result.code = sess.result.code
               /\ page' = page]_vars

\* the prompt was shown, get_qr clicked and captured the new code
C6_Witness ==
    /\ sess.op = "get_qr"
    /\ sess.outcome = "returned"
    /\ sess.pre.stale
    /\ sess.events = <<"click", "screenshot">>
    /\ sess.result.code # sess.pre.code

\* C7: with the main marker on the page and the QR image gone, get_qr and
\* reload_qr click nothing, raise nothing and leave the session LoggedIn.
C7_NoOpWhenLoggedIn ==
    (sess.op \in {"get_qr", "reload_qr"} /\ sess.pre.main /\ ~sess.pre.qr) =>
        /\ sess.outcome = "returned"
        /\ ~Clicked(sess.events)
        /\ ExpectedStatus(driver, page) = LoggedIn

\* the operations of the session other than get_status and the shutdown
LaterOperations == {"connect", "get_qr", "reload_qr"}

\* C11: once close() or quit() has released the driver session, get_status
\* reports NotConnected, and every other operation called on the client raises
\* a NoDriver-state error without sending any command to the driver.
C11_FailsFastAfterShutdown ==
    driver = Released =>
        /\ sess.op = "get_status" =>
              (sess.outcome = "returned" /\ sess.result = NotConnected)
        /\ sess.op \in LaterOperations =>
              /\ sess.outcome = "raised"
              /\ sess.result = NoDriver
              /\ sess.issued = <<>>

(***************************************************************************)
(* Claim about the snapshot (checked under SpecStorage)                    *)
(***************************************************************************)

\* C8: every value get_local_storage returns is plain 7-bit text, and a
\* connect that finds the snapshot leaves the page's storage holding exactly
\* the mapping the snapshot was taken from.
C8_SnapshotRoundTrip ==
    /\ \A k \in DOMAIN localStorage :
          \A i \in 1..Len(get_local_storage[k]) :
              IsPrintableAscii(get_local_storage[k][i])
    /\ (sess.op = "connect" /\ snapshotFile.src.exists) =>
          /\ sess.outcome = "returned"
          /\ localStorage = snapshotFile.src.origin

\* C13: connect navigates to the remote endpoint first; when a snapshot exists
\* in the configured permanent profile, it then injects every key of that
\* snapshot into the page's storage and afterwards reloads the page exactly
\* once; when none exists there it injects nothing and does not reload.
C13_ConnectRestoresPersistedSnapshot ==
    (sess.op = "connect" /\ driver = "Session") =>
        /\ sess.events # <<>>
        /\ Head(sess.events) = "get"
        /\ IF sess.pre_snapshot.perm.exists
           THEN /\ sess.events = <<"get", "execute_script", "refresh">>
                /\ sess.injected = DOMAIN sess.pre_snapshot.perm.json
                /\ sess.injected \subseteq DOMAIN localStorage
           ELSE /\ sess.events = <<"get">>
                /\ sess.injected = {}

(***************************************************************************)
(* Claim about saving the profile (checked under SpecProfile)              *)
(***************************************************************************)

\* the copy of the current profile would be missing or empty
NothingToCopy(dirs, snapshots) ==
    \/ ~dirs.src.exists
    \/ (CopyIgnoringLocks(dirs.src.items) = {} /\ ~snapshots.src.exists)

\* C9: in either mode, when the copy of the current profile is missing or
\* empty, save_firefox_profile raises, leaves the permanent profile as it was
\* and writes no snapshot.
C9_NeverSavesEmptyProfile ==
    (prof.op = "save_firefox_profile" /\ NothingToCopy(prof.pre, prof.pre_snapshot)) =>
        /\ prof.outcome = "raised"
        /\ fs.perm = prof.pre.perm
        /\ ~prof.snapshot_written
        /\ snapshotFile.perm = prof.pre_snapshot.perm

(***************************************************************************)
(* Claim about media download (checked under SpecMedia)                    *)
(***************************************************************************)

\* C10: a full download of a file of fewer than 10 bytes, or whose length
\* less 10 is no multiple of 16, raises; and a call that raises returns no
\* byte stream.
C10_MalformedCiphertextRaises ==
    media.op = "download_media" =>
        /\ (/\ media.stream.from # "content"
            /\ \/ media.file_len < TrailerLen
               \/ (media.file_len - TrailerLen) % BlockLen # 0)
           => media.outcome = "raised"
        /\ media.outcome = "raised" => media.stream.from = "nothing"

====
